---- MODULE Spec2Model ----
(***************************************************************************)
(* Model of the web-interview-recorder client (src/client/App.jsx).        *)
(*                                                                         *)
(* Spec       : the interviewee flow -- login, media access, recording,    *)
(*              per-question upload with exponential backoff, advancing;   *)
(*              SpecFair adds that the awaited calls of an upload settle.  *)
(* SpecReview : the interviewer review screen -- transcript fetch and the  *)
(*              3 second polling effect; SpecReviewFair adds that timers   *)
(*              fire and fetches settle.                                   *)
(* SpecDraft  : the review form of the same screen -- the scores and the  *)
(*              comment, their drafts in localStorage, the draft lock and  *)
(*              the submission of a review.                                *)
(* SpecServer : the backend's ingest endpoint, job queue, analysis worker  *)
(*              and status store, which are not part of src/ and are       *)
(*              modelled from the specification.                           *)
(*                                                                         *)
(* Every handler is modelled between its awaits: a step of the model is    *)
(* what one JavaScript task of the handler does to the React state.        *)
(***************************************************************************)
EXTENDS Integers, Sequences, FiniteSets, Bags, TLC

\* ---------------------------------------------------------------------
\* Program constants (App.jsx lines 33-35)
\* ---------------------------------------------------------------------
MAX_QUESTIONS == 5
MAX_RETRIES == 3
BASE_DELAY_MS == 2000
POLL_INTERVAL_MS == 3000

\* ---------------------------------------------------------------------
\* Bounds of the model
\* ---------------------------------------------------------------------
\* chunks a recording may buffer before it is stopped
MaxChunks == 2
\* transcript fetches the review screen may have outstanding at once
MaxFetches == 2
\* questions the reviewer switches between (Q1..Q<MaxReviewQ>)
MaxReviewQ == 2
\* questions of the session the server model follows
MaxServerQ == 2
\* uploads the ingest endpoint accepts in all
MaxUploads == 2
\* 50ms timers of the draft lock that may be pending at once
MaxTimers == 2

\* ---------------------------------------------------------------------
\* Inputs
\* ---------------------------------------------------------------------
\* HTTP statuses /upload-one may answer with; a network failure is NETWORK
NETWORK == 0
HttpStatuses == {200, 300, 400, 429, 500}
Outcomes == HttpStatuses \cup {NETWORK}

VARIABLES
    \* --- interviewee session -------------------------------------------
    view,                 \* useState 'login' | 'interview' | 'complete' | admin views
    isLoading,            \* useState(false)
    loginPc,              \* position of the running handleLogin, "none" when idle
    message,              \* kind of the text last passed to setMessage
    mediaAccessStatus,    \* 'pending' | 'granted' | 'denied'
    mediaStream,          \* TRUE iff mediaStream is not null
    questionsLen,         \* questions.length
    questionsSelected,    \* the session document of the interview last entered holds
                          \* the field questionsSelected
    currentQuestionIndex,
    isRecording,
    mediaRecorder,        \* TRUE iff the mediaRecorder state is not null
    recorder,             \* the MediaRecorder object: inactive/recording/stopping/flushed
    recordedChunks,       \* recordedChunksRef.current
    uploadStatus,
    uploadAttemptCount,
    uploads,              \* running uploadWithRetry sequences, one record each
    \* --- history of the current upload trigger --------------------------
    requests,             \* requests sent to /upload-one since the last trigger
    delays,               \* backoff delays waited since the last trigger
    outcomes,             \* outcomes of the requests answered since the last trigger
    trigger,              \* "none", or how the last sequence was started: "first" / "manual"
    sessionFinalized,
    \* --- review screen -------------------------------------------------
    reviewData,           \* "null" | "loaded" (has a metaUrl) | "error"
    currentQIndex,
    questionTranscript,
    questionTranscriptLoading,
    intervals,            \* armed polling interval timers (set of records)
    fetches,              \* outstanding meta.json fetches (a bag of records)
    meta,                 \* server meta.json: analysis state per question
    reviewFetch,          \* TRUE while fetchReviewData awaits getDoc
    terminalRead,         \* questions for which a terminal status has been read
    polled,               \* on the review screen, the timer has issued a poll since the
                          \* reviewer's last action
                          \* and every answer since then read "Processing..."
    leftProcessing,       \* the review screen was left while the question read "Processing..."
    \* --- review form and its drafts ---------------------------------------
    currentReviewSession, \* TRUE iff currentReviewSession is not null
    clarityScore,
    confidenceScore,
    comment,
    isDraftLoaded,        \* the draft lock
    localStorage,         \* the draft stored under draft_<token>_Q<q>, per question
    unlockTimers,         \* pending setTimeout(() => setIsDraftLoaded(true), 50)
    submitting,           \* question_index of the review being submitted, or NoSubmit
    submitted,            \* questions whose review was saved and not edited since
    \* --- server: job queue and status store ------------------------------
    jobs,                 \* per question, the Jobs created so far for it
    queue,                \* ids of the QUEUED jobs in the order they were enqueued
    sinceEnd,             \* ms since the last dispatch ended (saturates), NEVER before
    writers,              \* mergeQuestion calls in progress
    lock,                 \* the writer holding the session's lock, or NoWriter
    store,                \* the persisted session record: question -> StatusRecord
    received,             \* uploads accepted so far, per question
    reply,                \* the answer the ingest endpoint has just sent, if any
    returned,             \* the outcome the external call has just ended with, if any
    committed             \* per question, the fields its last merge-write stored

sessionVars == <<view, isLoading, loginPc, message, mediaAccessStatus, mediaStream,
                 questionsLen, currentQuestionIndex, isRecording, mediaRecorder,
                 recorder, recordedChunks, uploadStatus, uploadAttemptCount,
                 uploads, requests, delays, outcomes, trigger, sessionFinalized>>
reviewVars == <<reviewData, currentQIndex, questionTranscript,
                questionTranscriptLoading, intervals, fetches, reviewFetch,
                terminalRead, polled, leftProcessing>>
\* the review state proper, without the history of the polls (polled)
reviewState == <<reviewData, currentQIndex, questionTranscript,
                 questionTranscriptLoading, intervals, fetches, reviewFetch,
                 terminalRead, leftProcessing>>
serverVars == <<jobs, queue, sinceEnd, writers, lock, store, received,
                reply, returned, committed>>
draftVars == <<currentReviewSession, clarityScore, confidenceScore, comment,
               isDraftLoaded, localStorage, unlockTimers, submitting, submitted>>
\* what the handlers of the interview and of the transcript display leave
\* alone: the server's state, the session document in Firestore and the
\* review form with its drafts
backendVars == <<serverVars, questionsSelected, draftVars>>
vars == <<sessionVars, reviewVars, meta, backendVars>>

\* ---------------------------------------------------------------------
\* Pure helpers
\* ---------------------------------------------------------------------
RECURSIVE Pow2(_)
Pow2(n) == IF n <= 0 THEN 1 ELSE 2 * Pow2(n - 1)

RECURSIVE SumSeq(_)
SumSeq(s) == IF s = <<>> THEN 0 ELSE Head(s) + SumSeq(Tail(s))

RemoveAt(s, i) == [j \in 1..(Len(s) - 1) |-> IF j < i THEN s[j] ELSE s[j + 1]]

\* mutant: the exponent is not shifted by one
BackoffDelay_Unshifted(currentAttempt) == BASE_DELAY_MS * Pow2(currentAttempt)

\* delay = BASE_DELAY_MS * Math.pow(2, currentAttempt - 1)
BackoffDelay(currentAttempt) == BASE_DELAY_MS * Pow2(currentAttempt - 1)

\* response.ok
ResponseOk(status) == status >= 200 /\ status <= 299

\* mutant: every error status is retried
RetryableStatus_Any4xx(status) == status >= 400

\* response.status >= 500 || response.status === 429
RetryableStatus(status) == status >= 500 \/ status = 429

\* ---------------------------------------------------------------------
\* Initial state: the useState / useRef initial values of App
\* ---------------------------------------------------------------------
Questions == 0..(MAX_QUESTIONS - 1)

Init ==
    /\ view = "login"
    /\ isLoading = FALSE
    /\ loginPc = "none"
    /\ message = ""
    /\ mediaAccessStatus = "pending"
    /\ mediaStream = FALSE
    /\ questionsLen = 0
    /\ questionsSelected = FALSE
    /\ currentQuestionIndex = 0
    /\ isRecording = FALSE
    /\ mediaRecorder = FALSE
    /\ recorder = "inactive"
    /\ recordedChunks = <<>>
    /\ uploadStatus = "idle"
    /\ uploadAttemptCount = 0
    /\ uploads = <<>>
    /\ requests = <<>>
    /\ delays = <<>>
    /\ outcomes = <<>>
    /\ trigger = "none"
    /\ sessionFinalized = FALSE
    /\ reviewData = "null"
    /\ currentQIndex = 0
    /\ questionTranscript = ""
    /\ questionTranscriptLoading = FALSE
    /\ intervals = {}
    /\ fetches = EmptyBag
    /\ meta = [q \in Questions |-> "absent"]
    /\ terminalRead = {}
    /\ reviewFetch = FALSE
    /\ polled = FALSE
    /\ leftProcessing = FALSE
    /\ currentReviewSession = FALSE
    /\ clarityScore = 5
    /\ confidenceScore = 5
    /\ comment = <<>>
    /\ isDraftLoaded = FALSE
    /\ localStorage = [q \in 0..(MaxReviewQ - 1) |->
                         [clarity |-> 0, confidence |-> 0, text |-> <<>>]]
    /\ unlockTimers = 0
    /\ submitting = -1
    /\ submitted = {}
    /\ jobs = [q \in 0..(MaxServerQ - 1) |-> <<>>]
    /\ queue = <<>>
    /\ sinceEnd = -1
    /\ writers = {}
    /\ lock = [who |-> "none", q |-> -1, n |-> 0]
    /\ store = [q \in 0..(MaxServerQ - 1) |->
                  [status |-> "absent", file |-> 0, transcript |-> 0]]
    /\ received = [q \in 0..(MaxServerQ - 1) |-> 0]
    /\ reply = [q |-> -1, job |-> <<-1, 0>>, created |-> FALSE]
    /\ returned = [job |-> <<-1, 0>>, outcome |-> 0]
    /\ committed = [q \in 0..(MaxServerQ - 1) |->
                      [status |-> "absent", file |-> 0, transcript |-> 0]]

\* ---------------------------------------------------------------------
\* handleLogin (lines 865-908), one step per await
\* ---------------------------------------------------------------------
histVars == <<requests, delays, outcomes, trigger>>
uploadVars == <<uploadStatus, uploadAttemptCount, uploads, histVars>>
recordVars == <<isRecording, mediaRecorder, recorder, recordedChunks>>
mediaVars == <<mediaAccessStatus, mediaStream>>

\* form submit: the submit button is disabled while isLoading
HandleLoginSubmit ==
    /\ UNCHANGED backendVars
    /\ view = "login"
    /\ ~isLoading
    /\ loginPc = "none"
    /\ \E filled \in BOOLEAN :
          IF ~filled
          THEN /\ message' = "required"
               /\ UNCHANGED <<isLoading, loginPc>>
          ELSE /\ message' = "verifying"
               /\ isLoading' = TRUE
               /\ loginPc' = "verify"
    /\ UNCHANGED <<view, mediaVars, questionsLen, currentQuestionIndex, recordVars,
                   uploadVars, sessionFinalized, reviewVars, meta>>

\* mutant: the failure is reported but the handler goes on into the interview
LoginFailed_EntersAnyway(kind) ==
    /\ message' = kind
    /\ isLoading' = FALSE
    /\ loginPc' = "none"
    /\ view' = "interview"
    /\ UNCHANGED <<mediaVars, questionsLen, currentQuestionIndex, uploadStatus>>

\* catch / finally of handleLogin: message, isLoading false
LoginFailed(kind) ==
    /\ message' = kind
    /\ isLoading' = FALSE
    /\ loginPc' = "none"
    /\ UNCHANGED <<view, mediaVars, questionsLen, currentQuestionIndex, uploadStatus>>

\* await callApi('/verify-token') settles
HandleLoginVerified ==
    /\ UNCHANGED backendVars
    /\ loginPc = "verify"
    /\ \E ok \in BOOLEAN :
          IF ok
          THEN /\ loginPc' = "start"
               /\ message' = "starting"
               /\ UNCHANGED <<view, isLoading, mediaVars, questionsLen,
                              currentQuestionIndex, uploadStatus>>
          ELSE LoginFailed("login_failed")
    /\ UNCHANGED <<recordVars, uploadAttemptCount, uploads, histVars,
                   sessionFinalized, reviewVars, meta>>

\* await callApi('/session/start') settles; on success the server has
\* created the folder of the new session with an empty meta.json
HandleLoginStarted ==
    /\ UNCHANGED backendVars
    /\ loginPc = "start"
    /\ \E ok \in BOOLEAN :
          IF ok
          THEN /\ loginPc' = "select"
               /\ message' = "selecting"
               /\ meta' = [q \in Questions |-> "absent"]
               /\ UNCHANGED <<view, isLoading, mediaVars, questionsLen,
                              currentQuestionIndex, uploadStatus>>
          ELSE LoginFailed("login_failed") /\ UNCHANGED meta
    /\ UNCHANGED <<recordVars, uploadAttemptCount, uploads, histVars,
                   sessionFinalized, reviewVars>>

\* ---------------------------------------------------------------------
\* fetchAndSelectQuestions (lines 342-480)
\* ---------------------------------------------------------------------
\* the loop `while (!saved && attempt < 3)` around setDoc
WRITE_ATTEMPTS == 3
\* what getDocs(question_bank) yields: questions, an empty snapshot, or an error
BankStates == {"ok", "empty", "error"}
\* writes[k] tells whether the k-th setDoc would succeed
WriteOutcomes == [1..WRITE_ATTEMPTS -> BOOLEAN]

\* the number of setDoc calls the loop makes: it stops at the first success
RECURSIVE SaveAttempts(_, _)
SaveAttempts(writes, attempt) ==
    IF attempt >= WRITE_ATTEMPTS THEN attempt
    ELSE IF writes[attempt + 1] THEN attempt + 1
    ELSE SaveAttempts(writes, attempt + 1)

\* `saved` when the loop has ended
Saved(writes) == writes[SaveAttempts(writes, 0)]

\* the value fetchAndSelectQuestions resolves to (ok) and whether the
\* session document holds questionsSelected afterwards (persisted):
\* false without a Firestore client, on an empty bank and on a failed
\* getDocs; true when the session document already holds the questions;
\* otherwise the questions are selected, written with up to three
\* attempts, and true is returned whether or not a write succeeded
FetchAndSelectQuestions(dbReady, bank, persistedBefore, writes) ==
    [ok        |-> dbReady /\ bank = "ok",
     persisted |-> persistedBefore \/ Saved(writes)]

\* await fetchAndSelectQuestions() settles
HandleLoginSelected ==
    /\ UNCHANGED <<serverVars, draftVars>>
    /\ loginPc = "select"
    /\ \E dbReady, persistedBefore \in BOOLEAN, bank \in BankStates,
          writes \in WriteOutcomes :
          LET selected == FetchAndSelectQuestions(dbReady, bank, persistedBefore, writes)
              selectedOk == selected.ok
          IN  IF selectedOk
              THEN /\ questionsLen' = MAX_QUESTIONS
                   /\ questionsSelected' = selected.persisted
                   /\ message' = "ready"
                   /\ mediaAccessStatus' = "pending"
                   /\ view' = "interview"
                   /\ currentQuestionIndex' = 0
                   /\ uploadStatus' = "idle"
                   /\ isLoading' = FALSE
                   /\ loginPc' = "none"
                   /\ UNCHANGED mediaStream
              ELSE LoginFailed("select_warning") /\ UNCHANGED questionsSelected
    /\ UNCHANGED <<recordVars, uploadAttemptCount, uploads, histVars,
                   sessionFinalized, reviewVars, meta>>

\* ---------------------------------------------------------------------
\* requestMediaAccess (lines 522-559), run by the media effect (562-567)
\* while the interview view shows and the status is 'pending'
\* ---------------------------------------------------------------------
RequestMediaAccessSettled ==
    /\ UNCHANGED backendVars
    /\ view = "interview"
    /\ mediaAccessStatus = "pending"
    /\ \E granted \in BOOLEAN :
          IF granted
          THEN mediaStream' = TRUE /\ mediaAccessStatus' = "granted"
          ELSE mediaAccessStatus' = "denied" /\ UNCHANGED mediaStream
    /\ UNCHANGED <<view, isLoading, loginPc, message, questionsLen,
                   currentQuestionIndex, recordVars, uploadVars, sessionFinalized,
                   reviewVars, meta>>

\* the retry button of the 'Access Denied' panel
RequestMediaAccessAgain ==
    /\ UNCHANGED backendVars
    /\ view = "interview"
    /\ mediaAccessStatus = "denied"
    /\ mediaAccessStatus' = "pending"
    /\ UNCHANGED <<view, isLoading, loginPc, message, mediaStream, questionsLen,
                   currentQuestionIndex, recordVars, uploadVars, sessionFinalized,
                   reviewVars, meta>>

\* renderInterview shows a primary button only under this condition
ButtonsShown == view = "interview" /\ mediaAccessStatus = "granted" /\ questionsLen > 0


\* ---------------------------------------------------------------------
\* Recording (lines 609-662)
\* ---------------------------------------------------------------------
loginVars == <<isLoading, loginPc>>

\* 'Start Recording' is rendered when !isRecording && uploadStatus === 'idle'
StartRecording ==
    /\ UNCHANGED backendVars
    /\ ButtonsShown
    /\ ~isRecording
    /\ uploadStatus = "idle"
    /\ IF ~mediaStream \/ questionsLen = 0 \/ isRecording
       THEN /\ message' = "cannot_record"
            /\ UNCHANGED <<recordVars, uploadStatus>>
       ELSE /\ recordedChunks' = <<>>
            /\ recorder' = "recording"
            /\ mediaRecorder' = TRUE
            /\ isRecording' = TRUE
            /\ uploadStatus' = "recording"
            /\ message' = "recording"
    /\ UNCHANGED <<view, loginVars, mediaVars, questionsLen, currentQuestionIndex,
                   uploadAttemptCount, uploads, histVars,
                   sessionFinalized, reviewVars, meta>>

\* a chunk of the recording of question q
Chunk(q, n) == [q |-> q, n |-> n]

\* recorder.ondataavailable: pushed only if event.data.size > 0.  The
\* recorder emits a chunk every second while recording and a last one
\* when it is stopped.
OnDataAvailable ==
    /\ UNCHANGED backendVars
    /\ recorder \in {"recording", "stopping"}
    /\ \E size \in {0, 1} :
          /\ size > 0 => Len(recordedChunks) < MaxChunks
          /\ recordedChunks' =
                IF size > 0
                THEN Append(recordedChunks,
                            Chunk(currentQuestionIndex, Len(recordedChunks) + 1))
                ELSE recordedChunks
          /\ recorder' = IF recorder = "stopping" THEN "flushed" ELSE recorder
          /\ size = 0 => recorder = "stopping"
    /\ UNCHANGED <<view, loginVars, message, mediaVars, questionsLen,
                   currentQuestionIndex, isRecording, mediaRecorder, uploadVars,
                   sessionFinalized, reviewVars, meta>>

\* 'Stop Recording' is rendered while isRecording
StopRecording ==
    /\ UNCHANGED backendVars
    /\ ButtonsShown
    /\ isRecording
    /\ IF mediaRecorder /\ recorder = "recording"
       THEN /\ recorder' = "stopping"
            /\ isRecording' = FALSE
            /\ mediaRecorder' = FALSE
            /\ message' = "stopped"
       ELSE UNCHANGED <<recorder, isRecording, mediaRecorder, message>>
    /\ UNCHANGED <<view, loginVars, mediaVars, questionsLen, currentQuestionIndex,
                   recordedChunks, uploadVars, sessionFinalized, reviewVars, meta>>

\* recorder.onstop
RecorderOnStop ==
    /\ UNCHANGED backendVars
    /\ recorder = "flushed"
    /\ recorder' = "inactive"
    /\ uploadStatus' = "stopped"
    /\ UNCHANGED <<view, loginVars, message, mediaVars, questionsLen,
                   currentQuestionIndex, isRecording, mediaRecorder, recordedChunks,
                   uploadAttemptCount, uploads, histVars,
                   sessionFinalized, reviewVars, meta>>

\* ---------------------------------------------------------------------
\* uploadWithRetry (lines 668-742)
\* ---------------------------------------------------------------------
\* mutant: the blob is consumed by the first request, a re-sent request
\* carries an empty one
Request_BlobConsumed(u) ==
    [questionIndex |-> u.questionIndex,
     video |-> IF u.currentAttempt = 0 THEN u.videoBlob ELSE <<>>]

\* the request one call of fetch(`/upload-one`) carries
Request(u) == [questionIndex |-> u.questionIndex, video |-> u.videoBlob]

\* lines 690-712: build the form, setUploadStatus('uploading'), fetch
SendUpload(u, rest, reqHist) ==
    /\ uploadStatus' = "uploading"
    /\ uploadAttemptCount' = u.currentAttempt + 1
    /\ message' = IF u.currentAttempt = 0 THEN "uploading" ELSE message
    /\ uploads' = Append(rest, [u EXCEPT !.pc = "fetch"])
    /\ requests' = Append(reqHist, Request(u))

\* mutant: the exhausted sequence ends without setting the status
UploadWithRetry_SilentExhaustion(u, rest, reqHist) ==
    IF u.currentAttempt >= MAX_RETRIES
    THEN /\ uploads' = rest
         /\ requests' = reqHist
         /\ UNCHANGED <<uploadStatus, message, uploadAttemptCount>>
    ELSE IF u.currentAttempt > 0
    THEN /\ uploadStatus' = "retry"
         /\ uploadAttemptCount' = u.currentAttempt
         /\ message' = "retrying"
         /\ uploads' = Append(rest, [u EXCEPT !.pc = "backoff",
                                              !.delay = BackoffDelay(u.currentAttempt)])
         /\ requests' = reqHist
    ELSE SendUpload(u, rest, reqHist)

\* mutant: the exhaustion test is off by one (> instead of >=)
UploadWithRetry_OffByOne(u, rest, reqHist) ==
    IF u.currentAttempt > MAX_RETRIES
    THEN /\ uploadStatus' = "failed"
         /\ message' = "failed_max"
         /\ uploadAttemptCount' = u.currentAttempt
         /\ uploads' = rest
         /\ requests' = reqHist
    ELSE IF u.currentAttempt > 0
    THEN /\ uploadStatus' = "retry"
         /\ uploadAttemptCount' = u.currentAttempt
         /\ message' = "retrying"
         /\ uploads' = Append(rest, [u EXCEPT !.pc = "backoff",
                                              !.delay = BackoffDelay(u.currentAttempt)])
         /\ requests' = reqHist
    ELSE SendUpload(u, rest, reqHist)

\* lines 668-688: what a call uploadWithRetry(videoBlob, currentAttempt)
\* does before its first await; u carries the arguments and the closure
UploadWithRetry(u, rest, reqHist) ==
    IF u.currentAttempt >= MAX_RETRIES
    THEN /\ uploadStatus' = "failed"
         /\ message' = "failed_max"
         /\ uploadAttemptCount' = u.currentAttempt
         /\ uploads' = rest
         /\ requests' = reqHist
    ELSE IF u.currentAttempt > 0
    THEN /\ uploadStatus' = "retry"
         /\ uploadAttemptCount' = u.currentAttempt
         /\ message' = "retrying"
         /\ uploads' = Append(rest, [u EXCEPT !.pc = "backoff",
                                              !.delay = BackoffDelay(u.currentAttempt)])
         /\ requests' = reqHist
    ELSE SendUpload(u, rest, reqHist)

\* mutant: the manual retry from 'failed' is refused
UploadTriggerAccepted_StoppedOnly == uploadStatus = "stopped"

\* mutant: only a running request blocks the trigger
UploadTriggerAccepted_NotUploading == uploadStatus # "uploading"

\* line 747: the statuses in which handleUploadVideo does not return early
UploadTriggerAccepted == uploadStatus = "stopped" \/ uploadStatus = "failed"

\* handleUploadVideo (lines 745-754)
HandleUploadVideo ==
    /\ UNCHANGED backendVars
    /\ view = "interview"
    /\ IF ~UploadTriggerAccepted
       THEN UNCHANGED <<uploadStatus, uploadAttemptCount, message, uploads, histVars>>
       ELSE /\ UploadWithRetry([pc |-> "entry", currentAttempt |-> 0,
                                videoBlob |-> recordedChunks,
                                questionIndex |-> currentQuestionIndex,
                                delay |-> 0, status |-> -1],
                               uploads, <<>>)
            /\ delays' = <<>>
            /\ outcomes' = <<>>
            /\ trigger' = IF uploadStatus = "failed" THEN "manual" ELSE "first"
    /\ UNCHANGED <<view, loginVars, mediaVars, questionsLen, currentQuestionIndex,
                   recordVars, sessionFinalized, reviewVars, meta>>

\* line 687: the backoff timer of a sequence expires
BackoffElapsed ==
    /\ UNCHANGED backendVars
    /\ \E i \in DOMAIN uploads :
       /\ uploads[i].pc = "backoff"
       /\ delays' = Append(delays, uploads[i].delay)
       /\ SendUpload(uploads[i], RemoveAt(uploads, i), requests)
       /\ UNCHANGED <<view, loginVars, mediaVars, questionsLen, currentQuestionIndex,
                      recordVars, outcomes, trigger, sessionFinalized, reviewVars,
                      meta>>

\* mutant: the buffer is emptied whatever the outcome
RecordedChunksAfter_Always(outcome) == <<>>

\* line 735: the chunk buffer is emptied after a successful upload only
RecordedChunksAfter(outcome) ==
    IF outcome # NETWORK /\ ResponseOk(outcome) THEN <<>> ELSE recordedChunks

PROCESSING == "Processing..."

\* what meta.json holds as transcript_text of a question ("absent": the
\* question has no entry)
TranscriptText(state) ==
    CASE state = "processing" -> PROCESSING
      [] state = "done" -> "RESULT"
      [] state = "ai_error" -> "AI_ERROR"
      [] OTHER -> "absent"

\* one outstanding fetch of meta.json: the question it was started for and
\* what the server has answered; the answer is "pending" as long as the
\* file has not changed since the request
Fetch(qIndex, read) == [q |-> qIndex, read |-> read]

\* the fetches of question q whose answer is what the file holds now
Outstanding(q) == CopiesIn(Fetch(q, "pending"), fetches)

\* the file changes for question q: k of its outstanding fetches were
\* answered before and carry what the file held until now
Overtaken(q, k) ==
    IF k = 0
    THEN fetches
    ELSE (fetches (-) [f \in {Fetch(q, "pending")} |-> k])
            (+) [f \in {Fetch(q, TranscriptText(meta[q]))} |-> k]

\* the server side of an accepted upload: the question is marked processing
ServerAccept(q) == [meta EXCEPT ![q] = "processing"]

\* lines 707-741: await fetch settles with a response or a network error
UploadSettled ==
    /\ UNCHANGED backendVars
    /\ \E i \in DOMAIN uploads : \E outcome \in Outcomes :
       LET u == uploads[i]
           rest == RemoveAt(uploads, i)
       IN /\ u.pc = "fetch"
          /\ outcomes' = Append(outcomes, outcome)
          /\ recordedChunks' = RecordedChunksAfter(outcome)
          /\ IF outcome = NETWORK
             THEN \* catch: retry
                  /\ UploadWithRetry([u EXCEPT !.currentAttempt = u.currentAttempt + 1],
                                     rest, requests)
                  /\ UNCHANGED meta
             ELSE IF ~ResponseOk(outcome)
             THEN \* await response.json() for the error detail
                  /\ uploads' = Append(rest, [u EXCEPT !.pc = "errbody",
                                                       !.status = outcome])
                  /\ UNCHANGED <<uploadStatus, uploadAttemptCount, message, requests,
                                 meta>>
             ELSE /\ uploadStatus' = "success"
                  /\ uploadAttemptCount' = 0
                  /\ message' = "success"
                  /\ uploads' = rest
                  /\ meta' = ServerAccept(u.questionIndex)
                  /\ UNCHANGED requests
          /\ UNCHANGED <<view, loginVars, mediaVars, questionsLen,
                         currentQuestionIndex, isRecording, mediaRecorder, recorder,
                         delays, trigger, sessionFinalized, reviewVars>>

\* lines 716-728: the error body was read, decide whether to retry
UploadErrorRead ==
    /\ UNCHANGED backendVars
    /\ \E i \in DOMAIN uploads :
       LET u == uploads[i]
           rest == RemoveAt(uploads, i)
       IN /\ u.pc = "errbody"
          /\ IF RetryableStatus(u.status)
             THEN UploadWithRetry([u EXCEPT !.currentAttempt = u.currentAttempt + 1,
                                            !.status = -1],
                                  rest, requests)
             ELSE /\ uploadStatus' = "failed"
                  /\ message' = "failed_http"
                  /\ uploads' = rest
                  /\ UNCHANGED <<uploadAttemptCount, requests>>
          /\ UNCHANGED <<view, loginVars, mediaVars, questionsLen,
                         currentQuestionIndex, recordVars, delays, outcomes, trigger,
                         sessionFinalized, reviewVars, meta>>

\* ---------------------------------------------------------------------
\* handleNextQuestion (757-776), handleFinishSession (779-804),
\* handleReturnToLogin (807-837)
\* ---------------------------------------------------------------------
\* the history variables describe the upload of the current question: they
\* restart with every trigger and are emptied when the question is left
HistoryCleared ==
    /\ requests' = <<>>
    /\ delays' = <<>>
    /\ outcomes' = <<>>
    /\ trigger' = "none"

\* mutant: a failed upload may be left behind
CanAdvance_AlsoFailed == uploadStatus = "success" \/ uploadStatus = "failed"

\* mutant: advancing waits for the analysis of the question
CanAdvance_NeedsAnalysis ==
    uploadStatus = "success" /\ meta[currentQuestionIndex] = "done"

\* line 758: the condition under which handleNextQuestion goes on
CanAdvance == uploadStatus = "success"

HandleNextQuestion ==
    /\ UNCHANGED backendVars
    /\ view = "interview"
    /\ IF ~CanAdvance
       THEN /\ message' = "upload_first"
            /\ UNCHANGED <<view, currentQuestionIndex, uploadStatus, uploadAttemptCount,
                           histVars>>
       ELSE IF currentQuestionIndex < MAX_QUESTIONS - 1
       THEN /\ currentQuestionIndex' = currentQuestionIndex + 1
            /\ uploadStatus' = "idle"
            /\ uploadAttemptCount' = 0
            /\ message' = "next_ready"
            /\ HistoryCleared
            /\ UNCHANGED view
       ELSE /\ view' = "complete"
            /\ message' = "all_answered"
            /\ HistoryCleared
            /\ UNCHANGED <<currentQuestionIndex, uploadStatus, uploadAttemptCount>>
    /\ UNCHANGED <<loginVars, mediaVars, questionsLen, recordVars, uploads,
                   sessionFinalized, reviewVars, meta>>

\* 'Submit & Finish Session' is disabled while isLoading
HandleFinishSession ==
    /\ UNCHANGED backendVars
    /\ view = "complete"
    /\ ~sessionFinalized
    /\ ~isLoading
    /\ isLoading' = TRUE
    /\ loginPc' = "finish"
    /\ message' = "finalizing"
    /\ UNCHANGED <<view, mediaVars, questionsLen, currentQuestionIndex, recordVars,
                   uploadVars, sessionFinalized, reviewVars, meta>>

\* await fetch('/session/finish') settles
HandleFinishSettled ==
    /\ UNCHANGED backendVars
    /\ loginPc = "finish"
    /\ \E ok \in BOOLEAN :
          /\ sessionFinalized' = ok
          /\ message' = IF ok THEN "finalized" ELSE "finalize_error"
    /\ isLoading' = FALSE
    /\ loginPc' = "none"
    /\ UNCHANGED <<view, mediaVars, questionsLen, currentQuestionIndex, recordVars,
                   uploadVars, reviewVars, meta>>

\* 'Return to Login Page' of the complete view, 'Logout' of the dashboard
HandleReturnToLogin ==
    /\ UNCHANGED backendVars
    /\ \/ view = "complete" /\ sessionFinalized
       \/ view = "admin_dashboard"
    /\ mediaStream' = FALSE
    /\ questionsLen' = 0
    /\ currentQuestionIndex' = 0
    /\ uploadStatus' = "idle"
    /\ message' = ""
    /\ isRecording' = FALSE
    /\ sessionFinalized' = FALSE
    /\ view' = "login"
    /\ polled' = FALSE
    /\ UNCHANGED <<loginVars, mediaAccessStatus, mediaRecorder, recorder,
                   recordedChunks, uploadAttemptCount, uploads, histVars,
                   reviewState, meta>>

\* the server's analysis job of an uploaded question ends
ServerAnalysisEnds ==
    /\ UNCHANGED backendVars
    /\ \E q \in Questions : \E result \in {"done", "ai_error"} :
       /\ meta[q] = "processing"
       /\ meta' = [meta EXCEPT ![q] = result]
       /\ \E k \in 0..Outstanding(q) : fetches' = Overtaken(q, k)
       /\ UNCHANGED <<sessionVars, reviewData, currentQIndex, questionTranscript,
                      questionTranscriptLoading, intervals, reviewFetch,
                      terminalRead, polled, leftProcessing>>

Next ==
    \/ HandleLoginSubmit
    \/ HandleLoginVerified
    \/ HandleLoginStarted
    \/ HandleLoginSelected
    \/ RequestMediaAccessSettled
    \/ RequestMediaAccessAgain
    \/ StartRecording
    \/ OnDataAvailable
    \/ StopRecording
    \/ RecorderOnStop
    \/ HandleUploadVideo
    \/ BackoffElapsed
    \/ UploadSettled
    \/ UploadErrorRead
    \/ HandleNextQuestion
    \/ HandleFinishSession
    \/ HandleFinishSettled
    \/ HandleReturnToLogin
    \/ ServerAnalysisEnds

Spec == Init /\ [][Next]_vars

\* Spec with the scheduling an upload sequence relies on: every request
\* to /upload-one is answered or fails, the body of an error answer is
\* read, and the backoff timer (setTimeout) expires
SpecFair ==
    /\ Init
    /\ [][Next]_vars
    /\ WF_vars(UploadSettled)
    /\ WF_vars(UploadErrorRead)
    /\ WF_vars(BackoffElapsed)

TypeOK ==
    /\ uploadStatus \in {"idle", "recording", "stopped", "uploading", "retry",
                         "failed", "success"}
    /\ uploadAttemptCount \in 0..MAX_RETRIES
    /\ currentQuestionIndex \in Questions
    /\ questionsSelected \in BOOLEAN
    /\ Cardinality(intervals) <= 1
    /\ BagCardinality(fetches) <= MaxFetches

\* =====================================================================
\* The review screen: fetchReviewData, fetchTranscriptForQuestion and the
\* polling effect (lines 1060-1196)
\* =====================================================================
ReviewQs == 0..(MaxReviewQ - 1)

NOT_FOUND == "Transcript not found for this question."

IsTerminalText(text) == text \in {"RESULT", "AI_ERROR"}

\* the timer setInterval(..., 3000) of the polling effect arms; its
\* callback closes over currentQIndex and fetchTranscriptForQuestion (and
\* with it over reviewData)
Interval(q, data) == [q |-> q, period |-> POLL_INTERVAL_MS, canFetch |-> data = "loaded"]

\* mutant: the effect returns no cleanup, the previous timer stays armed
PollingEffect_NoCleanup(transcript, q, data) ==
    intervals \cup (IF transcript = PROCESSING THEN {Interval(q, data)} ELSE {})

\* lines 1179-1196: the polling effect after a render in which one of its
\* dependencies changed: the previous timer is cleared, a new one is armed
\* iff the transcript reads "Processing..."
PollingEffect(transcript, q, data) ==
    IF transcript = PROCESSING THEN {Interval(q, data)} ELSE {}

\* lines 1120-1132: fetchTranscriptForQuestion(qIndex) up to its await,
\* followed by the polling effect of the render it causes
FetchTranscriptForQuestion(qIndex, isPoll) ==
    /\ BagCardinality(fetches) < MaxFetches
    /\ questionTranscriptLoading' = TRUE
    /\ questionTranscript' = ""
    /\ fetches' = fetches (+) SetToBag({Fetch(qIndex, "pending")})
    /\ intervals' = PollingEffect("", qIndex, reviewData)
    /\ polled' = (isPoll /\ view = "admin_review")

sessionAll == <<isLoading, loginPc, mediaVars, questionsLen, currentQuestionIndex,
                recordVars, uploadVars, sessionFinalized>>

\* 'Interviewer Login' link of the login view (line 1299)
GoAdminLogin ==
    /\ UNCHANGED backendVars
    /\ view = "login"
    /\ view' = "admin_login"
    /\ polled' = FALSE
    /\ UNCHANGED <<message, sessionAll, reviewState, meta>>

\* handleInterviewerLogin (lines 913-929)
HandleInterviewerLogin ==
    /\ UNCHANGED backendVars
    /\ view = "admin_login"
    /\ ~isLoading
    /\ \E keyOk \in BOOLEAN :
          IF keyOk
          THEN view' = "admin_dashboard" /\ message' = ""
          ELSE view' = view /\ message' = "invalid_key"
    /\ polled' = FALSE
    /\ UNCHANGED <<sessionAll, reviewState, meta>>

\* the Review button of the sessions table (lines 1039-1043) and the
\* effect of line 1113: a session object not reviewed before starts
\* fetchReviewData (lines 1061-1075), which drops reviewData
OpenReview ==
    /\ UNCHANGED backendVars
    /\ view = "admin_dashboard"
    /\ view' = "admin_review"
    /\ leftProcessing' = FALSE
    /\ polled' = FALSE
    /\ \E fresh \in BOOLEAN :
          IF fresh
          THEN /\ ~reviewFetch
               /\ reviewFetch' = TRUE
               /\ reviewData' = "null"
               /\ intervals' = IF reviewData # "null"
                               THEN PollingEffect(questionTranscript, currentQIndex, "null")
                               ELSE intervals
          ELSE /\ reviewData # "null" \/ reviewFetch
               /\ UNCHANGED <<reviewFetch, reviewData, intervals>>
    /\ UNCHANGED <<message, sessionAll, currentQIndex, questionTranscript,
                   questionTranscriptLoading, fetches, terminalRead, meta>>

\* fetchReviewData after its await (lines 1075-1110), then the effects of
\* the render: the load effect (1171-1175) fetches the transcript of the
\* start question when the data has a metaUrl
FetchReviewDataSettled ==
    /\ UNCHANGED backendVars
    /\ reviewFetch
    /\ reviewFetch' = FALSE
    /\ \E ok \in BOOLEAN : \E startIndex \in ReviewQs :
          IF ok
          THEN /\ currentQIndex' = startIndex
               /\ reviewData' = "loaded"
               /\ FetchTranscriptForQuestion(startIndex, FALSE)
          ELSE /\ reviewData' = "error"
               /\ intervals' = PollingEffect(questionTranscript, currentQIndex, "error")
               /\ UNCHANGED <<currentQIndex, questionTranscript,
                              questionTranscriptLoading, fetches, polled>>
    /\ UNCHANGED <<view, message, sessionAll, terminalRead, leftProcessing, meta>>

\* a question button Q1..Q5 (line 1524), then the load effect
SelectQuestion ==
    /\ UNCHANGED backendVars
    /\ view = "admin_review"
    /\ ~reviewFetch
    /\ reviewData = "loaded"
    /\ \E index \in ReviewQs :
          /\ index # currentQIndex
          /\ currentQIndex' = index
          /\ FetchTranscriptForQuestion(index, FALSE)
    /\ UNCHANGED <<view, message, sessionAll, reviewData, reviewFetch, terminalRead,
                   leftProcessing, meta>>

\* 'Back to Dashboard' (line 1481) and 'Go to Dashboard' (line 1422)
BackToDashboard ==
    /\ UNCHANGED backendVars
    /\ view = "admin_review"
    /\ ~reviewFetch
    /\ view' = "admin_dashboard"
    /\ leftProcessing' = (questionTranscript = PROCESSING)
    /\ polled' = FALSE
    /\ UNCHANGED <<message, sessionAll, reviewData, currentQIndex, questionTranscript,
                   questionTranscriptLoading, intervals, fetches, reviewFetch,
                   terminalRead, meta>>

\* lines 1133-1166: the text fetchTranscriptForQuestion displays
DisplayedTranscript(read) == IF read \in {"fail", "absent"} THEN NOT_FOUND ELSE read

\* fetchTranscriptForQuestion after its await (lines 1133-1166): the fetch
\* fails or brings the server's answer, which is what the file holds now
\* unless the file has changed since; then the polling effect if the
\* transcript changed
TranscriptArrives ==
    /\ UNCHANGED backendVars
    /\ \E f \in BagToSet(fetches) : \E ok \in BOOLEAN :
       LET read == IF ~ok THEN "fail"
                   ELSE IF f.read = "pending" THEN TranscriptText(meta[f.q])
                   ELSE f.read
           text == DisplayedTranscript(read)
       IN /\ questionTranscript' = text
          /\ questionTranscriptLoading' = FALSE
          /\ fetches' = fetches (-) SetToBag({f})
          /\ intervals' = IF text # questionTranscript
                          THEN PollingEffect(text, currentQIndex, reviewData)
                          ELSE intervals
          /\ terminalRead' = IF IsTerminalText(read)
                             THEN terminalRead \cup {f.q}
                             ELSE terminalRead
          /\ polled' = (polled /\ text = PROCESSING)
          /\ UNCHANGED <<view, message, sessionAll, reviewData, currentQIndex,
                         reviewFetch, leftProcessing, meta>>

\* lines 1186-1189: the interval timer fires
IntervalTick ==
    /\ UNCHANGED backendVars
    /\ \E t \in intervals :
       /\ IF t.canFetch
          THEN FetchTranscriptForQuestion(t.q, TRUE)
          ELSE UNCHANGED <<questionTranscriptLoading, questionTranscript, fetches,
                           intervals, polled>>
       /\ UNCHANGED <<view, message, sessionAll, reviewData, currentQIndex,
                      reviewFetch, terminalRead, leftProcessing, meta>>

\* the candidate's upload of a question reaches the server
ServerUpload ==
    /\ UNCHANGED backendVars
    /\ \E q \in ReviewQs :
       /\ meta[q] = "absent"
       /\ meta' = ServerAccept(q)
       /\ \E k \in 0..Outstanding(q) : fetches' = Overtaken(q, k)
       /\ UNCHANGED <<sessionVars, reviewData, currentQIndex, questionTranscript,
                      questionTranscriptLoading, intervals, reviewFetch,
                      terminalRead, polled, leftProcessing>>

NextReview ==
    \/ GoAdminLogin
    \/ HandleInterviewerLogin
    \/ OpenReview
    \/ FetchReviewDataSettled
    \/ SelectQuestion
    \/ BackToDashboard
    \/ TranscriptArrives
    \/ IntervalTick
    \/ ServerUpload
    \/ ServerAnalysisEnds
    \/ HandleReturnToLogin

SpecReview == Init /\ [][NextReview]_vars

\* the review screen with its scheduling: an armed setInterval timer fires
\* and the answer to a fetch arrives (or the fetch fails) in the end
SpecReviewFair ==
    /\ Init
    /\ [][NextReview]_vars
    /\ WF_vars(IntervalTick)
    /\ WF_vars(TranscriptArrives)

\* =====================================================================
\* The server: IngestEndpoint, JobQueue, AnalysisWorker and StatusStore
\* (job_queue.py, queue_worker.py and main.py of the backend; modelled
\* from the specification, sections 3 to 5)
\* =====================================================================
THROTTLE_MS == 15000
COOLDOWN_MS == 70000
NEVER == -1
ServerQs == 0..(MaxServerQ - 1)
clientVars == <<sessionVars, reviewVars, meta, questionsSelected, draftVars>>

\* outcomes of one call of the external inference service
TIMEOUT == 1
CallOutcomes == {200, 400, 429, 500, TIMEOUT}

\* section 4.3, failure classification: rate_limited(429), server_error(5xx)
\* and timeout are retryable, client_error(4xx) is not
RetryableFailure(outcome) ==
    outcome = 429 \/ (outcome >= 500 /\ outcome <= 599) \/ outcome = TIMEOUT

\* section 3: the states in which a Job is active
ActiveStates == {"QUEUED", "RUNNING", "RETRY_SCHEDULED"}

\* the id of a Job: its (session, question) pair and its number among the
\* Jobs of the pair
JobIds == UNION {{<<q, k>> : k \in 1..Len(jobs[q])} : q \in ServerQs}
NoJob == <<-1, 0>>
Job(id) == jobs[id[1]][id[2]]
WithJob(id, job) == [jobs EXCEPT ![id[1]][id[2]] = job]
ActiveJobs(q) == {id \in JobIds : id[1] = q /\ Job(id).state \in ActiveStates}
RunningJobs == {id \in JobIds : Job(id).state = "RUNNING"}

\* the Job a (session, question) reference stands for: the one created last
HasJob(q) == jobs[q] # <<>>
LatestJob(q) == <<q, Len(jobs[q])>>

\* a fresh Job (section 3): attempt count 0, no automatic retry behind it
NewJob == [state |-> "QUEUED", attempts |-> 0, manual |-> FALSE, waited |-> 0]

Min(a, b) == IF a < b THEN a ELSE b

\* uploads accepted so far, over the questions up to q
RECURSIVE ReceivedUpTo(_)
ReceivedUpTo(q) == IF q < 0 THEN 0 ELSE received[q] + ReceivedUpTo(q - 1)

\* ---------------------------------------------------------------------
\* StatusStore (section 4.5): mergeQuestion(session, index, partialFields)
\* ---------------------------------------------------------------------
NoWriter == [who |-> "none", q |-> -1, n |-> 0]
NoReply == [q |-> -1, job |-> NoJob, created |-> FALSE]
NoReturn == [job |-> NoJob, outcome |-> 0]
StatusFields == {"status", "file", "transcript"}

\* the record with the fields of partial laid over it
MergeFields(old, partial) ==
    [f \in StatusFields |-> IF f \in DOMAIN partial THEN partial[f] ELSE old[f]]

\* mutant: the status is written to every question of the session
MergeQuestion_StatusForAll(record, index, partial) ==
    [q \in ServerQs |-> IF q = index
                        THEN MergeFields(record[q], partial)
                        ELSE [record[q] EXCEPT !.status = partial.status]]

\* the session record after the merge of partial into question index
MergeQuestion(record, index, partial) ==
    [record EXCEPT ![index] = MergeFields(@, partial)]

\* a mergeQuestion call in progress: who writes (the ingest of upload n of
\* question q, or the worker of the Job <<q, n>>), the partial fields, the
\* call's position and the session record it has read
Writer(who, q, n, partial) ==
    [who |-> who, q |-> q, n |-> n, partial |-> partial, pc |-> "begin",
     snapshot |-> <<>>]
WriterId(w) == [who |-> w.who, q |-> w.q, n |-> w.n]

\* mutant: the writer does not wait for the session's lock
LockFree_Ignored == TRUE

\* the per-session lock is free
LockFree == lock = NoWriter

\* mergeQuestion takes the session's lock and reads the session record
MergeBegin ==
    /\ \E w \in writers :
          /\ w.pc = "begin"
          /\ LockFree
          /\ lock' = WriterId(w)
          /\ writers' = (writers \ {w}) \cup {[w EXCEPT !.pc = "write", !.snapshot = store]}
    /\ reply' = NoReply
    /\ returned' = NoReturn
    /\ UNCHANGED <<clientVars, jobs, queue, sinceEnd, store, received, committed>>

\* mergeQuestion writes the merged record back and releases the lock
MergeCommit ==
    /\ \E w \in writers :
          /\ w.pc = "write"
          /\ store' = MergeQuestion(w.snapshot, w.q, w.partial)
          /\ committed' = [committed EXCEPT ![w.q] = MergeFields(@, w.partial)]
          /\ lock' = IF lock = WriterId(w) THEN NoWriter ELSE lock
          /\ writers' = (writers \ {w}) \cup {[w EXCEPT !.pc = "done", !.snapshot = <<>>]}
    /\ reply' = NoReply
    /\ returned' = NoReturn
    /\ UNCHANGED <<clientVars, jobs, queue, sinceEnd, received>>

\* ---------------------------------------------------------------------
\* IngestEndpoint (section 4.2)
\* ---------------------------------------------------------------------
\* a request arrives: the MIME type is validated, the bytes are persisted
\* at the question's path and the merge-write of status "uploaded" starts;
\* a request of another MIME type is rejected and leaves no trace
IngestArrives ==
    /\ \E q \in ServerQs : \E mimeAllowed \in BOOLEAN :
          /\ ReceivedUpTo(MaxServerQ - 1) < MaxUploads
          /\ IF ~mimeAllowed
             THEN UNCHANGED <<received, writers>>
             ELSE LET n == received[q] + 1
                  IN /\ received' = [received EXCEPT ![q] = n]
                     /\ writers' = writers \cup
                           {Writer("ingest", q, n, [status |-> "uploaded", file |-> n])}
    /\ reply' = NoReply
    /\ returned' = NoReturn
    /\ UNCHANGED <<clientVars, jobs, queue, sinceEnd, lock, store, committed>>

\* mutant: every enqueue creates a Job
EnqueueCreates_Always(q) == TRUE

\* section 3: an enqueue creates a Job unless the pair has an active one
EnqueueCreates(q) == ActiveJobs(q) = {}

\* JobQueue: the enqueue request of an ingest is taken from the submission
\* channel; the answer carries the job id
Enqueue(q) ==
    IF EnqueueCreates(q)
    THEN LET id == <<q, Len(jobs[q]) + 1>>
         IN /\ jobs' = [jobs EXCEPT ![q] = Append(@, NewJob)]
            /\ queue' = Append(queue, id)
            /\ reply' = [q |-> q, job |-> id, created |-> TRUE]
    ELSE /\ reply' = [q |-> q, job |-> CHOOSE id \in ActiveJobs(q) : TRUE,
                      created |-> FALSE]
         /\ UNCHANGED <<jobs, queue>>

\* the status was written: the ingest enqueues the Job and answers
IngestEnqueue ==
    /\ \E w \in writers :
          /\ w.who = "ingest"
          /\ w.pc = "done"
          /\ Enqueue(w.q)
          /\ writers' = writers \ {w}
    /\ returned' = NoReturn
    /\ UNCHANGED <<clientVars, sinceEnd, lock, store, received, committed>>

\* ---------------------------------------------------------------------
\* JobQueue: the dispatch loop (section 4.3)
\* ---------------------------------------------------------------------
\* mutant: the driver does not look at the slot
SlotFree_Ignored == TRUE

\* the external-call slot is free: no Job is RUNNING
SlotFree == RunningJobs = {}

\* mutant: only fresh jobs are throttled, the re-run of a retry is not
ThrottleOpen_QueuedOnly(id) ==
    sinceEnd = NEVER \/ sinceEnd >= THROTTLE_MS \/ Job(id).state = "RETRY_SCHEDULED"

\* no dispatch has ended yet, or the last one ended 15s ago or earlier
ThrottleOpen(id) == sinceEnd = NEVER \/ sinceEnd >= THROTTLE_MS

\* the next eligible job: the first QUEUED one, or a RETRY_SCHEDULED one
\* whose wake time has elapsed
Eligible(id) ==
    \/ queue # <<>> /\ id = Head(queue)
    \/ Job(id).state = "RETRY_SCHEDULED" /\ Job(id).waited >= COOLDOWN_MS

\* the driver starts a run: the Job becomes RUNNING and the worker makes
\* its one external call
Dispatch ==
    /\ \E id \in JobIds :
          /\ SlotFree
          /\ Eligible(id)
          /\ ThrottleOpen(id)
          /\ jobs' = WithJob(id, [Job(id) EXCEPT !.state = "RUNNING",
                                                 !.attempts = @ + 1,
                                                 !.waited = 0])
          /\ queue' = IF Job(id).state = "QUEUED" THEN Tail(queue) ELSE queue
    /\ reply' = NoReply
    /\ returned' = NoReturn
    /\ UNCHANGED <<clientVars, sinceEnd, writers, lock, store, received, committed>>

\* mutant: a retryable failure is always retried
AfterFailure_AlwaysRetry(job, outcome) ==
    IF RetryableFailure(outcome) THEN "RETRY_SCHEDULED" ELSE "FAILED"

\* the state a failed run leaves the Job in: RETRY_SCHEDULED on the first
\* retryable failure, FAILED on the second one, on a client error and after
\* a manual retry
AfterFailure(job, outcome) ==
    IF RetryableFailure(outcome) /\ job.attempts < 2 /\ ~job.manual
    THEN "RETRY_SCHEDULED"
    ELSE "FAILED"

\* the external call of the run of job id has not ended yet
CallPending(id) ==
    \A w \in writers : ~(w.who = "worker" /\ w.q = id[1] /\ w.n = id[2])

\* AnalysisWorker (section 4.4): the external call returns or times out.
\* A result or a final failure is merge-written before it is reported.
RunEnds ==
    /\ \E id \in RunningJobs : \E outcome \in CallOutcomes :
          /\ CallPending(id)
          /\ returned' = [job |-> id, outcome |-> outcome]
          /\ IF outcome = 200
             THEN /\ writers' = writers \cup
                        {Writer("worker", id[1], id[2],
                                [status |-> "done", transcript |-> id[2]])}
                  /\ UNCHANGED <<jobs, sinceEnd>>
             ELSE IF AfterFailure(Job(id), outcome) = "RETRY_SCHEDULED"
             THEN /\ jobs' = WithJob(id, [Job(id) EXCEPT !.state = "RETRY_SCHEDULED",
                                                         !.waited = 0])
                  /\ sinceEnd' = 0
                  /\ UNCHANGED writers
             ELSE /\ writers' = writers \cup
                        {Writer("worker", id[1], id[2], [status |-> "ai_error"])}
                  /\ UNCHANGED <<jobs, sinceEnd>>
    /\ reply' = NoReply
    /\ UNCHANGED <<clientVars, queue, lock, store, received, committed>>

\* the worker reports to the queue: the run ends, the slot is released
JobReport ==
    /\ \E id \in RunningJobs : \E w \in writers :
          /\ w.who = "worker" /\ w.q = id[1] /\ w.n = id[2]
          /\ w.pc = "done"
          /\ jobs' = WithJob(id, [Job(id) EXCEPT !.state =
                                     IF w.partial.status = "done"
                                     THEN "SUCCEEDED" ELSE "FAILED"])
          /\ writers' = writers \ {w}
          /\ sinceEnd' = 0
    /\ reply' = NoReply
    /\ returned' = NoReturn
    /\ UNCHANGED <<clientVars, queue, lock, store, received, committed>>

\* mutant: a Job is retried by hand once only
ManualRetryAccepted_Once(job) == job.state = "FAILED" /\ ~job.manual

\* a manual retry is accepted for a Job in FAILED
ManualRetryAccepted(job) == job.state = "FAILED"

\* the manual-retry request for a (session, question) reference: a fresh
\* attempt of its Job is enqueued
ManualRetryFor(q) ==
    /\ HasJob(q)
    /\ ManualRetryAccepted(Job(LatestJob(q)))
    /\ jobs' = WithJob(LatestJob(q), [Job(LatestJob(q)) EXCEPT !.state = "QUEUED",
                                                               !.manual = TRUE,
                                                               !.attempts = 0])
    /\ queue' = Append(queue, LatestJob(q))

ManualRetry ==
    /\ \E q \in ServerQs : ManualRetryFor(q)
    /\ reply' = NoReply
    /\ returned' = NoReturn
    /\ UNCHANGED <<clientVars, sinceEnd, writers, lock, store, received, committed>>

\* the timers of the queue that have not expired yet: the throttle
\* interval, and the cool-down of every RETRY_SCHEDULED job
Remaining ==
    {THROTTLE_MS - sinceEnd : x \in {y \in {0} : sinceEnd # NEVER /\ sinceEnd < THROTTLE_MS
                                                  /\ SlotFree}}
      \cup {COOLDOWN_MS - Job(id).waited :
               id \in {j \in JobIds : Job(j).state = "RETRY_SCHEDULED"
                                       /\ Job(j).waited < COOLDOWN_MS}}

SetMin(S) == CHOOSE m \in S : \A other \in S : m <= other

\* the Job after d more ms
Aged(job, d) ==
    IF job.state = "RETRY_SCHEDULED"
    THEN [job EXCEPT !.waited = Min(@ + d, COOLDOWN_MS)]
    ELSE job

\* time passes until the next timer expires
Tick ==
    /\ Remaining # {}
    /\ LET d == SetMin(Remaining)
       IN /\ sinceEnd' = IF sinceEnd = NEVER \/ ~SlotFree
                         THEN sinceEnd
                         ELSE Min(sinceEnd + d, THROTTLE_MS)
          /\ jobs' = [q \in ServerQs |->
                        [k \in 1..Len(jobs[q]) |-> Aged(jobs[q][k], d)]]
    /\ reply' = NoReply
    /\ returned' = NoReturn
    /\ UNCHANGED <<clientVars, queue, writers, lock, store, received, committed>>

NextServer ==
    \/ IngestArrives
    \/ MergeBegin
    \/ MergeCommit
    \/ IngestEnqueue
    \/ Dispatch
    \/ RunEnds
    \/ JobReport
    \/ ManualRetry
    \/ Tick

SpecServer == Init /\ [][NextServer]_vars

\* =====================================================================
\* The review form: scores, comment, their drafts in localStorage
\* (lines 181-232) and handleScoreSubmit (lines 1442-1474)
\*
\* The form and the transcript display share the view, the review data and
\* currentQIndex and nothing else; SpecDraft follows the form and leaves the
\* transcript untouched, as SpecReview leaves the form untouched.
\* =====================================================================
transcriptVars == <<questionTranscript, questionTranscriptLoading, intervals,
                    fetches, terminalRead, polled, leftProcessing>>

\* useState(5) of the two sliders
DEFAULT_SCORE == 5
\* slider positions the reviewer picks
ScoreInputs == {DEFAULT_SCORE, 8}
\* the comment: '' or a text, which is known by the question that was on
\* display when the reviewer typed it
NoComment == <<>>
CommentFor(q) == <<q>>

\* localStorage.getItem(draftKey) === null
NoDraft == [clarity |-> 0, confidence |-> 0, text |-> <<>>]
NoSubmit == -1

\* lines 224-228: draftData of a render
DraftData(clarity, confidence, text) ==
    [clarity |-> clarity, confidence |-> confidence, text |-> text]

\* parsed.clarity || 5
ScoreOrDefault(score) == IF score = 0 THEN DEFAULT_SCORE ELSE score

\* lines 218-232: the auto-save effect of a render with view v, session,
\* currentQIndex q, isDraftLoaded loaded and the form draftData
AutoSave(storage, v, session, q, loaded, draftData) ==
    IF v = "admin_review" /\ session /\ loaded
    THEN [storage EXCEPT ![q] = draftData]
    ELSE storage

\* lines 186-215: the auto-load effect for question q: lock, fill the form
\* from the draft or reset it, unlock 50ms later
AutoLoad(q) ==
    /\ isDraftLoaded' = FALSE
    /\ IF localStorage[q] # NoDraft
       THEN /\ clarityScore' = ScoreOrDefault(localStorage[q].clarity)
            /\ confidenceScore' = ScoreOrDefault(localStorage[q].confidence)
            /\ comment' = localStorage[q].text
       ELSE /\ clarityScore' = DEFAULT_SCORE
            /\ confidenceScore' = DEFAULT_SCORE
            /\ comment' = NoComment
    /\ unlockTimers' = unlockTimers + 1

\* the effects of the render in which view, currentReviewSession or
\* currentQIndex has changed: auto-load, then auto-save, both with the
\* values of that render (the form and the lock as they were before); the
\* render the auto-load causes finds the lock closed and saves nothing
DraftEffects(v, q) ==
    IF v = "admin_review"
    THEN /\ unlockTimers < MaxTimers
         /\ AutoLoad(q)
         /\ localStorage' = AutoSave(localStorage, v, TRUE, q, isDraftLoaded,
                                     DraftData(clarityScore, confidenceScore, comment))
    ELSE UNCHANGED <<clarityScore, confidenceScore, comment, isDraftLoaded,
                     localStorage, unlockTimers>>

\* the Review button of the sessions table (lines 1039-1043): the session
\* and the view are set, the draft effects run; a session object not
\* reviewed before starts fetchReviewData
ReviewSession ==
    /\ view = "admin_dashboard"
    /\ view' = "admin_review"
    /\ currentReviewSession' = TRUE
    /\ DraftEffects("admin_review", currentQIndex)
    /\ \E fresh \in BOOLEAN :
          IF fresh
          THEN ~reviewFetch /\ reviewFetch' = TRUE /\ reviewData' = "null"
          ELSE (reviewData # "null" \/ reviewFetch) /\ UNCHANGED <<reviewFetch, reviewData>>
    /\ UNCHANGED <<message, sessionAll, currentQIndex, transcriptVars, meta,
                   serverVars, questionsSelected, submitting, submitted>>

\* fetchReviewData after its await (lines 1075-1110): setCurrentQIndex(
\* startIndex); the draft effects run if that changes the question
ReviewDataSettled ==
    /\ reviewFetch
    /\ reviewFetch' = FALSE
    /\ \E ok \in BOOLEAN : \E startIndex \in 0..(MaxReviewQ - 1) :
          IF ok
          THEN /\ currentQIndex' = startIndex
               /\ reviewData' = "loaded"
               /\ IF startIndex # currentQIndex
                  THEN DraftEffects(view, startIndex)
                  ELSE UNCHANGED <<clarityScore, confidenceScore, comment,
                                   isDraftLoaded, localStorage, unlockTimers>>
          ELSE /\ reviewData' = "error"
               /\ UNCHANGED <<currentQIndex, clarityScore, confidenceScore, comment,
                              isDraftLoaded, localStorage, unlockTimers>>
    /\ UNCHANGED <<view, message, sessionAll, transcriptVars, meta, serverVars,
                   questionsSelected, currentReviewSession, submitting, submitted>>

\* a question button Q1..Q5 (line 1524): setCurrentQIndex(index), then the
\* draft effects
SetCurrentQIndex ==
    /\ view = "admin_review"
    /\ ~reviewFetch
    /\ reviewData = "loaded"
    /\ \E index \in 0..(MaxReviewQ - 1) :
          /\ index # currentQIndex
          /\ currentQIndex' = index
          /\ DraftEffects(view, index)
    /\ UNCHANGED <<view, message, sessionAll, reviewData, reviewFetch,
                   transcriptVars, meta, serverVars, questionsSelected,
                   currentReviewSession, submitting, submitted>>

\* the form is shown with the loaded review data
FormShown == view = "admin_review" /\ ~reviewFetch /\ reviewData = "loaded"

\* what an onChange handler of the form leaves alone
formFrame == <<view, message, sessionAll, reviewData, reviewFetch, currentQIndex,
               transcriptVars, meta, serverVars, questionsSelected,
               currentReviewSession, isDraftLoaded, unlockTimers, submitting>>

\* line 1666: the clarity slider, then the auto-save effect
SetClarityScore ==
    /\ FormShown
    /\ \E score \in ScoreInputs :
          /\ score # clarityScore
          /\ clarityScore' = score
          /\ localStorage' = AutoSave(localStorage, view, currentReviewSession,
                                      currentQIndex, isDraftLoaded,
                                      DraftData(score, confidenceScore, comment))
    /\ submitted' = submitted \ {currentQIndex}
    /\ UNCHANGED <<formFrame, confidenceScore, comment>>

\* line 1671: the confidence slider, then the auto-save effect
SetConfidenceScore ==
    /\ FormShown
    /\ \E score \in ScoreInputs :
          /\ score # confidenceScore
          /\ confidenceScore' = score
          /\ localStorage' = AutoSave(localStorage, view, currentReviewSession,
                                      currentQIndex, isDraftLoaded,
                                      DraftData(clarityScore, score, comment))
    /\ submitted' = submitted \ {currentQIndex}
    /\ UNCHANGED <<formFrame, clarityScore, comment>>

\* line 1681: the comment box, then the auto-save effect
SetComment ==
    /\ FormShown
    /\ \E text \in {NoComment, CommentFor(currentQIndex)} :
          /\ text # comment
          /\ comment' = text
          /\ localStorage' = AutoSave(localStorage, view, currentReviewSession,
                                      currentQIndex, isDraftLoaded,
                                      DraftData(clarityScore, confidenceScore, text))
    /\ submitted' = submitted \ {currentQIndex}
    /\ UNCHANGED <<formFrame, clarityScore, confidenceScore>>

\* lines 211-213 and 1466: a 50ms timer expires, the lock opens; the
\* auto-save effect runs if that changed isDraftLoaded
UnlockTimerFires ==
    /\ unlockTimers > 0
    /\ unlockTimers' = unlockTimers - 1
    /\ isDraftLoaded' = TRUE
    /\ localStorage' = IF isDraftLoaded
                       THEN localStorage
                       ELSE AutoSave(localStorage, view, currentReviewSession,
                                     currentQIndex, TRUE,
                                     DraftData(clarityScore, confidenceScore, comment))
    /\ UNCHANGED <<view, message, sessionAll, reviewData, reviewFetch, currentQIndex,
                   transcriptVars, meta, serverVars, questionsSelected,
                   currentReviewSession, clarityScore, confidenceScore, comment,
                   submitting, submitted>>

\* handleScoreSubmit (lines 1442-1457) up to its await; the submit button
\* is disabled until the call has settled
HandleScoreSubmit ==
    /\ FormShown
    /\ submitting = NoSubmit
    /\ submitting' = currentQIndex
    /\ UNCHANGED <<view, message, sessionAll, reviewData, reviewFetch, currentQIndex,
                   transcriptVars, meta, serverVars, questionsSelected,
                   currentReviewSession, clarityScore, confidenceScore, comment,
                   isDraftLoaded, localStorage, unlockTimers, submitted>>

\* handleScoreSubmit after await callApi('/interviewer/submit-review')
\* (lines 1459-1473): on success the draft of the submitted question is
\* removed and the lock is closed for 50ms
HandleScoreSubmitSettled ==
    /\ submitting # NoSubmit
    /\ submitting' = NoSubmit
    /\ \E ok \in BOOLEAN :
          IF ok
          THEN /\ unlockTimers < MaxTimers
               /\ message' = "review_saved"
               /\ localStorage' = [localStorage EXCEPT ![submitting] = NoDraft]
               /\ isDraftLoaded' = FALSE
               /\ unlockTimers' = unlockTimers + 1
               /\ submitted' = submitted \cup {submitting}
          ELSE /\ message' = "review_error"
               /\ UNCHANGED <<localStorage, isDraftLoaded, unlockTimers, submitted>>
    /\ UNCHANGED <<view, sessionAll, reviewData, reviewFetch, currentQIndex,
                   transcriptVars, meta, serverVars, questionsSelected,
                   currentReviewSession, clarityScore, confidenceScore, comment>>

NextDraft ==
    \/ GoAdminLogin
    \/ HandleInterviewerLogin
    \/ ReviewSession
    \/ ReviewDataSettled
    \/ SetCurrentQIndex
    \/ SetClarityScore
    \/ SetConfidenceScore
    \/ SetComment
    \/ UnlockTimerFires
    \/ HandleScoreSubmit
    \/ HandleScoreSubmitSettled
    \/ BackToDashboard

SpecDraft == Init /\ [][NextDraft]_vars

\* =====================================================================
\* Claims about the upload state machine (checked under Spec)
\* =====================================================================
\* the claims' own reading of the failure classes
IsRetryableOutcome(o) == o = NETWORK \/ o = 429 \/ (o >= 500 /\ o <= 599)
IsTerminal4xx(o) == o >= 400 /\ o <= 499 /\ o # 429
AllRetryable(os) == \A k \in DOMAIN os : IsRetryableOutcome(os[k])
ActiveStatuses == {"uploading", "retry"}

\* C1: a sequence in which every request failed retryably and which ended
\* in 'failed' has suspended for 2000ms, then 4000ms, then 8000ms (14s in
\* total) before it ended.
C1_ThreeBackoffDelays ==
    (uploadStatus = "failed" /\ uploads = <<>> /\ outcomes # <<>> /\ AllRetryable(outcomes))
        => (delays = <<2000, 4000, 8000>> /\ SumSeq(delays) = 14000)

\* what the code does in that case: three requests, two suspensions
C1_CodeBehaviour ==
    (uploadStatus = "failed" /\ uploads = <<>> /\ outcomes # <<>> /\ AllRetryable(outcomes))
        => (Len(requests) = 3 /\ delays = <<2000, 4000>>)

\* C2: one trigger sends at most MAX_RETRIES = 3 requests; once the third
\* has failed retryably the status is 'failed', no sequence is left running,
\* and the next request sent is the first one of a new (manual) trigger.
C2_AtMostThreeRequests ==
    /\ [](Len(requests) <= 3)
    /\ []((Len(outcomes) = 3 /\ AllRetryable(outcomes) /\ uploads = <<>>)
            => uploadStatus = "failed")
    /\ [][(uploadStatus = "failed" /\ requests' # requests)
            => (Len(requests') = 1 /\ trigger' = "manual")]_vars

C2_Witness ==
    /\ uploadStatus = "failed"
    /\ Len(requests) = 3
    /\ Len(outcomes) = 3
    /\ AllRetryable(outcomes)

\* C3: 'retry' is entered, and a request re-sent, only after a network
\* failure, a 5xx or a 429; a non-429 4xx answer is the last outcome of its
\* trigger: the status goes from 'uploading' to 'failed', no delay is waited
\* after it and no further request is sent.
C3_FailureClassification ==
    /\ [](uploadStatus = "retry" =>
            (outcomes # <<>> /\ IsRetryableOutcome(outcomes[Len(outcomes)])))
    /\ [](\A k \in DOMAIN outcomes :
            /\ k < Len(requests) => IsRetryableOutcome(outcomes[k])
            /\ IsTerminal4xx(outcomes[k]) =>
                  /\ k = Len(outcomes)
                  /\ k = Len(requests)
                  /\ Len(delays) = k - 1
                  /\ uploadStatus \in {"uploading", "failed"}
                  /\ uploads = <<>> => uploadStatus = "failed")
    /\ [][(outcomes # <<>> /\ IsTerminal4xx(outcomes[Len(outcomes)])
             /\ uploadStatus = "uploading" /\ uploadStatus' # "uploading")
            => (uploadStatus' = "failed" /\ uploads' = <<>>
                /\ delays' = delays /\ requests' = requests)]_vars

C3_Witness ==
    /\ uploadStatus = "failed"
    /\ outcomes = <<500, 400>>
    /\ delays = <<2000>>
    /\ Len(requests) = 2

\* C4: two network failures, then a success: the delays were exactly 2s
\* and 4s, nothing is waited after the third request, the status is
\* 'success' and the attempt count is back at 0.
C4_ScenarioB ==
    outcomes = <<NETWORK, NETWORK, 200>>
        => /\ delays = <<2000, 4000>>
           /\ Len(requests) = 3
           /\ uploads = <<>>
           /\ uploadStatus = "success"
           /\ uploadAttemptCount = 0

C4_Witness ==
    /\ outcomes = <<NETWORK, NETWORK, 200>>
    /\ uploadStatus = "success"

\* a step that starts a new uploadWithRetry sequence at attempt 0
StartsFreshSequence ==
    /\ HandleUploadVideo
    /\ Len(uploads') = Len(uploads) + 1
    /\ uploads'[Len(uploads')].currentAttempt = 0
    /\ uploadStatus' = "uploading"
    /\ Len(requests') = 1

\* C5: handleUploadVideo is accepted only in 'stopped' or 'failed'; from
\* 'failed', however it was reached, it always starts a fresh sequence at
\* attempt 0 (so up to 3 new requests follow), any number of times.
C5_ManualTrigger ==
    /\ (view = "interview" /\ uploadStatus \in {"stopped", "failed"})
          => ENABLED StartsFreshSequence
    /\ (view = "interview" /\ uploadStatus \notin {"stopped", "failed"})
          => ~ENABLED (HandleUploadVideo /\ sessionVars' # sessionVars)
    /\ (trigger = "manual" => Len(requests) \in 1..3)

\* a manual retry that itself ended in 'failed': once by using up its
\* three requests, once on a terminal 4xx
C5_Witness ==
    /\ trigger = "manual"
    /\ uploadStatus = "failed"
    /\ Len(requests) = 3

\* C6: the chunk buffer is emptied by a successful upload only; in
\* stopped / uploading / retry / failed it keeps the recording, every
\* request carries it, and startRecording clears an empty buffer.
C6_ChunksClearedOnSuccessOnly ==
    /\ [][(recordedChunks # <<>> /\ recordedChunks' = <<>>)
            => (uploadStatus = "uploading" /\ uploadStatus' = "success")]_vars
    /\ [][(uploadStatus \in {"stopped", "uploading", "retry", "failed"}
             /\ uploadStatus' # "success")
            => recordedChunks' = recordedChunks]_vars
    /\ [](uploadStatus \in {"uploading", "retry", "failed"}
            => \A k \in DOMAIN requests : requests[k].video = recordedChunks)
    /\ [](uploadStatus = "idle" => recordedChunks = <<>>)

C6_Witness ==
    /\ trigger = "manual"
    /\ uploadStatus = "uploading"
    /\ recordedChunks # <<>>
    /\ requests = <<[questionIndex |-> currentQuestionIndex, video |-> recordedChunks]>>

\* a step of handleNextQuestion that leaves the current question
Advances ==
    /\ HandleNextQuestion
    /\ currentQuestionIndex' # currentQuestionIndex \/ view' = "complete"

\* C7: in the interview view handleNextQuestion advances exactly when the
\* status is 'success', whatever the server-side analysis state of the
\* question is.
C7_AdvanceIffSuccess ==
    view = "interview" => (uploadStatus = "success" <=> ENABLED Advances)

\* advanced past question 1 while its analysis was still running
C7_Witness ==
    /\ view = "interview"
    /\ currentQuestionIndex = 1
    /\ uploadStatus = "success"
    /\ meta[0] = "processing"
    /\ meta[1] = "ai_error"

\* the edges of the per-question status
StatusEdges ==
    {<<"idle", "recording">>, <<"recording", "stopped">>, <<"stopped", "uploading">>,
     <<"uploading", "success">>, <<"uploading", "retry">>, <<"retry", "uploading">>,
     <<"uploading", "failed">>, <<"failed", "uploading">>, <<"success", "idle">>}

\* C8: the status changes along the listed edges only; uploading->retry
\* only while fewer than 3 requests were made; success->idle on advancing,
\* or the reset to idle on login / return to login.
C8_StatusEdgesOnly ==
    [][uploadStatus' # uploadStatus =>
         \/ /\ <<uploadStatus, uploadStatus'>> \in StatusEdges
            /\ uploadStatus' = "retry" => Len(requests) < 3
            /\ <<uploadStatus, uploadStatus'>> = <<"success", "idle">> =>
                  (currentQuestionIndex' = currentQuestionIndex + 1 \/ view' = "login")
         \/ uploadStatus' = "idle" /\ (view' = "login" \/ view = "login")]_vars

\* a question that went through retry, failed and a manual retry to success
C8_Witness ==
    /\ uploadStatus = "success"
    /\ trigger = "manual"
    /\ delays # <<>>

\* C9: at most one uploadWithRetry sequence exists at any time, it exists
\* exactly while the status is 'uploading' or 'retry', and no click starts
\* a second one meanwhile.
C9_SingleUploadInFlight ==
    /\ Len(uploads) <= 1
    /\ (Len(uploads) = 1 <=> uploadStatus \in ActiveStatuses)
    /\ uploadStatus \in ActiveStatuses => ~ENABLED StartsFreshSequence

\* a click was refused while the sequence was suspended in its backoff
C9_Witness ==
    /\ uploadStatus = "retry"
    /\ Len(uploads) = 1
    /\ uploads[1].pc = "backoff"
    /\ message = "upload_first"

\* =====================================================================
\* Claims about the review screen (checked under SpecReview)
\* =====================================================================
\* a step that issues a poll request for q: the timer starts a fetch, the
\* selection and the review data stay as they are
PollIssued(q) ==
    /\ fetches' = fetches (+) SetToBag({Fetch(q, "pending")})
    /\ currentQIndex' = currentQIndex
    /\ reviewFetch' = reviewFetch

\* C10: while the transcript read for the reviewed question is
\* "Processing..." a 3000ms timer that re-reads this question is armed, and
\* once a terminal status (result or error) has been read for a question no
\* further poll request is issued for it.
C10_PollUntilTerminal ==
    /\ [](questionTranscript = PROCESSING =>
            \E t \in intervals : t.q = currentQIndex /\ t.period = 3000)
    /\ [][\A q \in ReviewQs : PollIssued(q) => q \notin terminalRead]_vars

\* C11: the polls of one question are capped: when the question stays
\* selected on the review screen and its status stays processing, the timer
\* issues a poll for it a bounded number of times (about 12) and then never
\* again.
C11_PollingCapped ==
    \A q \in ReviewQs :
       <>[](view = "admin_review" /\ currentQIndex = q /\ meta[q] = "processing")
          => <>[][~PollIssued(q)]_vars

\* C12: at every instant at most one polling interval timer is armed, and
\* a step that arms a new timer leaves no earlier timer armed.
C12_SinglePollingTimer ==
    /\ [](Cardinality(intervals) <= 1)
    /\ [][(intervals' \ intervals # {}) => (intervals' \cap intervals = {})]_vars

\* the timer was armed again after a poll had replaced it, for a question
\* other than Q1
C12_Witness ==
    /\ polled
    /\ \E t \in intervals : t.q = currentQIndex /\ t.q # 0

\* C13: after the view has left the review screen while the reviewed
\* question read "Processing...", no poll request is issued for that
\* question as long as the view stays away.
C13_NoPollAfterLeaving ==
    [][(leftProcessing /\ view # "admin_review") => ~PollIssued(currentQIndex)]_vars

\* =====================================================================
\* Claims about the server (checked under SpecServer)
\* =====================================================================
\* job id after the step
JobAfter(id) == jobs'[id[1]][id[2]]

\* a step in which the run of job id starts
Started(id) == Job(id).state # "RUNNING" /\ JobAfter(id).state = "RUNNING"

\* no run has started yet
NoRunYet ==
    \A id \in JobIds : Job(id).state = "QUEUED" /\ Job(id).attempts = 0
                        /\ ~Job(id).manual

\* C14: at most one Job is RUNNING in every reachable state.
C14_MutualExclusion == Cardinality(RunningJobs) <= 1

\* a job runs while another one is eligible and the throttle is open: the
\* slot alone holds the second one back
C14_Witness ==
    \E id \in RunningJobs : \E other \in JobIds \ {id} :
       Eligible(other) /\ ThrottleOpen(other)

\* C15: every run except the very first starts no sooner than 15s after the
\* previous run ended, whether the job is fresh, re-run automatically or
\* retried by hand.
C15_Throttle ==
    [][\A id \in JobIds :
         Started(id) => \/ sinceEnd # NEVER /\ sinceEnd >= THROTTLE_MS
                        \/ sinceEnd = NEVER /\ NoRunYet]_vars

\* the cool-down of a job has elapsed and the slot is free, but the last
\* run ended less than 15s ago
C15_Witness ==
    /\ SlotFree
    /\ sinceEnd # NEVER /\ sinceEnd < THROTTLE_MS
    /\ \E id \in JobIds : Job(id).state = "RETRY_SCHEDULED"
                            /\ Job(id).waited >= COOLDOWN_MS

\* a step in which an ingest request gets the answer of the queue
EnqueueAnswered == reply'.job # NoJob

\* C16: every (session, question) pair has at most one active Job; an
\* enqueue for a pair with an active Job creates no Job and answers with
\* the id of the active one, any other enqueue creates the pair's Job.
C16_IdempotentEnqueue ==
    /\ [](\A q \in ServerQs : Cardinality(ActiveJobs(q)) <= 1)
    /\ [][EnqueueAnswered =>
            IF ActiveJobs(reply'.q) # {}
            THEN /\ jobs' = jobs
                 /\ reply'.job \in ActiveJobs(reply'.q)
                 /\ ~reply'.created
            ELSE /\ jobs' = [jobs EXCEPT ![reply'.q] = Append(@, NewJob)]
                 /\ reply'.job = <<reply'.q, Len(jobs[reply'.q]) + 1>>
                 /\ reply'.created]_vars

\* a second upload of a question was answered with the id of the Job that
\* waits for its automatic retry
C16_Witness ==
    /\ reply.job # NoJob
    /\ ~reply.created
    /\ Job(reply.job).state = "RETRY_SCHEDULED"
    /\ store[reply.q].file = 2

C18_ManualRetry ==
    /\ [](\A q \in ServerQs :
            (HasJob(q) /\ Job(LatestJob(q)).state = "FAILED")
               => ENABLED ManualRetryFor(q))
    /\ [][\A id \in JobIds :
            (Started(id) /\ Job(id).manual)
               => (sinceEnd # NEVER /\ sinceEnd >= THROTTLE_MS)]_vars

\* a job retried by hand has failed again, and the throttle is not open yet
C18_Witness ==
    \E id \in JobIds : /\ Job(id).state = "FAILED"
                        /\ Job(id).manual
                        /\ Job(id).attempts = 1
                        /\ sinceEnd < THROTTLE_MS

\* C19: merge-writes of one session do not lose updates: whatever the
\* interleaving, the session record holds for every question the fields
\* its merge-writes have stored.
C19_NoLostUpdate == store = committed

\* the merge-writes of two different questions overlapped and both are in
\* the record
C19_Witness ==
    \E w1 \in writers : \E w2 \in writers :
       /\ w1.q # w2.q
       /\ w1.pc = "done" /\ w2.pc = "done"
       /\ w1.who = "ingest" /\ w2.who = "worker"
       /\ store[w1.q].status = "uploaded"
       /\ store[w2.q].status = "done"

EntersInterview == view # "interview" /\ view' = "interview"
\* handleLogin is between its submit and its last await
LoginRunning == loginPc \in {"verify", "start", "select"}
\* the media effect (lines 562-567) calls requestMediaAccess in this state
MediaAccessRequested == view = "interview" /\ mediaAccessStatus = "pending"

C22_PersistedBeforeInterview == view = "interview" => questionsSelected

\* what the code does: the selection has succeeded, so the view is
\* entered, whether or not a write went through
C22_CodeBehaviour ==
    [][EntersInterview => (questionsLen' = MAX_QUESTIONS /\ message' = "ready")]_vars

\* the statuses in which no upload sequence has sent a request that is
\* still unanswered or has failed
RestingStatuses == {"idle", "recording", "stopped", "success"}

\* C23: uploadAttemptCount is always one of 0..MAX_RETRIES, and it is 0
\* whenever the status is 'idle', 'recording', 'stopped' or 'success'.
C23_AttemptCountBounds ==
    /\ uploadAttemptCount \in 0..MAX_RETRIES
    /\ uploadStatus \in RestingStatuses => uploadAttemptCount = 0

\* the third request of a trigger (sent with the counter at MAX_RETRIES)
\* was accepted and the counter is back at 0
C23_Witness ==
    /\ uploadStatus = "success"
    /\ uploadAttemptCount = 0
    /\ Len(requests) = MAX_RETRIES
    /\ Len(outcomes) = MAX_RETRIES

\* C24: all requests of one upload sequence carry the same question index
\* and the same video blob, and currentQuestionIndex does not change while
\* the status is 'uploading' or 'retry'.
C24_SameQuestionAndBlob ==
    /\ [](\A i, j \in DOMAIN requests : requests[i] = requests[j])
    /\ [](uploadStatus \in ActiveStatuses =>
            \A i \in DOMAIN requests : requests[i].questionIndex = currentQuestionIndex)
    /\ [][(uploadStatus \in ActiveStatuses)
            => (currentQuestionIndex' = currentQuestionIndex)]_vars

\* the third request of a sequence for the second question is under way
C24_Witness ==
    /\ uploadStatus = "uploading"
    /\ Len(requests) = MAX_RETRIES
    /\ currentQuestionIndex = 1
    /\ requests[1].video # <<>>

\* the questions of the running session whose upload the server has
\* accepted (meta.json is emptied by /session/start and gets the entry of
\* a question when its upload succeeds)
Uploaded == {q \in Questions : meta[q] # "absent"}

\* C25: the 'complete' view is entered only when an upload has succeeded
\* for every question 0..MAX_QUESTIONS-1; the first success of a question
\* is that of the current question and comes when exactly the questions
\* before it have succeeded (increasing order, none skipped);
\* currentQuestionIndex is always within 0..MAX_QUESTIONS-1 and does not
\* decrease between login and the return to the login view.
C25_AllQuestionsInOrder ==
    /\ [](currentQuestionIndex \in 0..(MAX_QUESTIONS - 1))
    /\ [](view = "complete" => Uploaded = Questions)
    /\ [](view = "interview" => Uploaded \in {0..(currentQuestionIndex - 1),
                                               0..currentQuestionIndex})
    /\ [][/\ \A q \in Questions :
                (meta[q] = "absent" /\ meta'[q] # "absent") =>
                    /\ q = currentQuestionIndex
                    /\ uploadStatus' = "success"
                    /\ Uploaded = 0..(q - 1)
          /\ (view # "complete" /\ view' = "complete") =>
                (Uploaded = Questions /\ currentQuestionIndex = MAX_QUESTIONS - 1)
          /\ (view # "login" /\ view' # "login") =>
                currentQuestionIndex' \in {currentQuestionIndex, currentQuestionIndex + 1}
         ]_vars

\* the fifth upload has succeeded and the complete view shows
C25_Witness ==
    /\ view = "complete"
    /\ Uploaded = Questions
    /\ currentQuestionIndex = MAX_QUESTIONS - 1
    /\ uploadStatus = "success"

\* C26: when every request is answered or fails, every upload trigger
\* ends in 'success' or 'failed': the status does not stay in 'uploading'
\* or 'retry' for ever.
C26_UploadTerminates ==
    (uploadStatus \in ActiveStatuses) ~> (uploadStatus \in {"success", "failed"})

\* a sequence has ended in 'failed' after a request that had been delayed
C26_Witness ==
    /\ uploadStatus = "failed"
    /\ uploads = <<>>
    /\ delays # <<>>
    /\ trigger = "first"

\* =====================================================================
\* Claims about the display of the review screen (checked under SpecReview)
\* =====================================================================
\* C27: once every outstanding fetch of meta.json has completed, what the
\* review screen displays belongs to the selected question: a terminal
\* transcript on display is the one the file holds for currentQIndex (the
\* entry of a question never changes after it became terminal), so the
\* late answer for a question selected before has not replaced it.
C27_DisplayOfSelectedQuestion ==
    (/\ view = "admin_review"
     /\ fetches = EmptyBag
     /\ IsTerminalText(questionTranscript))
        => TranscriptText(meta[currentQIndex]) = questionTranscript

\* a step in which the answer to a fetch for the selected question arrives
AnswerForSelected ==
    /\ meta' = meta
    /\ \E f \in BagToSet(fetches) :
          /\ f.q = currentQIndex
          /\ CopiesIn(f, fetches') < CopiesIn(f, fetches)

\* C28: a failed poll request does not end polling: when the answer to a
\* poll for the selected question arrives while the server still reports
\* the question as processing, the 3000ms timer is armed again, whether the
\* request succeeded or failed.
C28_PollingSurvivesFailure ==
    [][(/\ view = "admin_review"
        /\ polled
        /\ meta[currentQIndex] = "processing"
        /\ AnswerForSelected)
            => (\E t \in intervals' : t.q = currentQIndex)]_vars

\* what the code does: the timer is armed after an answer iff the answer
\* was read and says "Processing..."
C28_CodeBehaviour ==
    [][(view = "admin_review" /\ polled /\ AnswerForSelected)
            => ((intervals' # {}) <=> (questionTranscript' = PROCESSING))]_vars

\* =====================================================================
\* Claims about the drafts of the review form (checked under SpecDraft)
\* =====================================================================
\* C29: after a review was submitted successfully, the draft of its
\* question is absent from localStorage, and stays absent until the
\* reviewer edits a score or the comment of that question again.
C29_DraftStaysRemoved == \A q \in submitted : localStorage[q] = NoDraft

\* what the code does: the draft is absent as long as the 50ms timer of
\* the submission has not opened the lock again
C29_CodeBehaviour ==
    [][(submitting # NoSubmit /\ submitting' = NoSubmit /\ unlockTimers' > unlockTimers)
            => (localStorage'[submitting] = NoDraft /\ ~isDraftLoaded')]_vars

\* C30: the draft lock keeps the drafts of the questions apart: on the
\* review screen, once the timers of the lock have expired, the draft
\* stored under the key of a question holds no comment that was typed for
\* another question, however quickly the question switches followed each
\* other.
C30_DraftsSeparate ==
    (view = "admin_review" /\ unlockTimers = 0 /\ isDraftLoaded) =>
        \A q \in 0..(MaxReviewQ - 1) :
            localStorage[q].text \in {NoComment, CommentFor(q)}

\* what the code does: a draft holds what the form held in some render
C30_CodeBehaviour ==
    \A q \in 0..(MaxReviewQ - 1) :
        localStorage[q] = NoDraft \/ localStorage[q].clarity \in ScoreInputs
====
